---- MODULE Spec2Model ----
(***************************************************************************)
(* Control flow of the WorkFlow Pro verification harness:                  *)
(*   - test_project_creation_flow and its cleanup_projects fixture         *)
(*     (part3_integration_test.py), with the helpers it calls:             *)
(*     verify_tenant_isolation, test_cross_platform,                       *)
(*     test_mobile_accessibility, _test_desktop_platform;                  *)
(*   - test_concurrent_project_creation (part3_integration_test.py);       *)
(*   - LoginPage.navigate_to_login (part1_debug_solution.py).              *)
(* The backend, the browser driver and the HTTP transport are external:    *)
(* every call to them is a nondeterministic choice over its outcomes.      *)
(* pytest runs one test function at a time; the variable test says which.  *)
(***************************************************************************)
EXTENDS Integers, Sequences, FiniteSets, TLC

\* Python's None, as the value of an absent project id.
None == -1

COMPANY1_ID == "company1"
COMPANY2_ID == "company2"

\* Values the backend may put in the 'id' field of a create response: the
\* field may be absent (None), and an id is any integer (0 is falsy).
ResponseIds == {None, 0, 7}

\* bool(created_project_id)
Truthy(id) == id # None /\ id # 0

\* Outcomes of session.get in get_project: a status code, or the transport
\* raising (timeout, connection refused).
GetOutcomes == {"200", "403", "404", "500", "timeout"}

\* Outcomes of session.delete in delete_project.
DeleteOutcomes == {"200", "204", "404", "500", "timeout"}

\* APIClient.get_project raises unless the status is 200.
GetProjectRaises(o) == o # "200"

\* Variant: a delete of an absent project counts as a failure.
DeleteProjectReturns_No404(o) == o \in {"200", "204"}

\* APIClient.delete_project: True for 200/204/404, False for any other status
\* and for a transport exception; never raises.
DeleteProjectReturns(o) == o \in {"200", "204", "404"}

\* The five stages of test_project_creation_flow, in source order.
StageCreate == 1
StageUi == 2
StageMobile == 3
StageIsolation == 4
StagePlatform == 5
Stages == {StageCreate, StageUi, StageMobile, StageIsolation, StagePlatform}

VARIABLES
  test,                \* the test function pytest is running
  \* ---- test_project_creation_flow + cleanup_projects
  pc,                  \* position in the test / the fixture teardown
  exc,                 \* exception in flight ("none" when there is none)
  project_response,    \* what create_project returned
  createCalls,         \* history: create_project calls made by the test
  created_project_id,
  cleanup_projects,    \* the fixture's created_projects list
  started, succeeded,  \* history: stages begun / completed
  stageError,          \* history: the error raised by the failing stage
  call,                \* the helper (mobile / desktop procedure) being run
  dash,                \* history: the last verify_project_in_dashboard call
  pauses,              \* history: time.sleep calls made by the test
  mobileResults,       \* history: what each mobile call of STEP 3 gave
  uiBrowser,           \* the browser of STEP 2: its state and close() calls
  iso,                 \* verify_tenant_isolation: reads made and its result
  platform_results,    \* test_cross_platform: results dict
  platformIdx,         \* test_cross_platform: loop position
  verifyRuns,          \* history: verifications started per platform
  rawResults,          \* history: what each platform's verification gave
  success_rate,        \* <<M, N>> of line 510 (<<0, 0>> before it)
  breakdown,           \* history: platforms named by the log lines 515-518
  finallyRead,         \* outcome of the read in the finally block
  teardownAuth,        \* outcome of the fixture's re-authentication
  teardownIdx,         \* fixture loop position
  deleted,             \* history: delete_project calls made by the fixture
  reported,            \* what pytest reports for the test, once it has ended
  \* ---- LoginPage.navigate_to_login
  navPc,               \* position in navigate_to_login
  attempt,             \* the loop variable
  gotoCalls,           \* history: page.goto invocations
  navSleeps,           \* history: time.sleep(2) calls
  navErrors,           \* history: the error of each failed attempt
  navWarnings,         \* history: attempt numbers in the warnings of line 89
  navRaised,           \* the error navigate_to_login raised ("none" if none)
  \* ---- test_concurrent_project_creation
  mainPc,              \* position of the main thread
  mainIdx,             \* its loop variable (start, join, cleanup loops)
  workerPc,            \* position of each create_project_worker thread
  results_queue,       \* the queue.Queue of (worker_id, success, id)
  successful_creations,
  created_project_ids,
  collected,           \* history: the tuples taken from the queue
  session,             \* per APIClient: whose token its session header holds
  work,                \* history: what each worker did (client, create, error)
  concRate,            \* <<successes, num_threads>> of line 677
  concDeleted,         \* history: ids passed to delete_project
  concReported,        \* what pytest reports for the test
  \* ---- DashboardPage.verify_tenant_data
  tdPc,                \* position in verify_tenant_data
  expected_tenant,     \* its argument
  project_cards,       \* what get_project_cards returned
  cardIdx,             \* the loop position
  cardsChecked,        \* history: cards whose text was read
  tdResult             \* how the call ended ("none" while it runs)

flowVars == <<pc, exc, project_response, createCalls, created_project_id,
              cleanup_projects,
              started, succeeded, stageError, call, dash, pauses,
              mobileResults, uiBrowser, iso,
              platform_results,
              platformIdx, verifyRuns, rawResults, success_rate, breakdown,
              finallyRead, teardownAuth, teardownIdx, deleted, reported>>

createVars == <<project_response, createCalls, created_project_id,
                cleanup_projects>>
xpVars == <<platform_results, platformIdx, verifyRuns, rawResults, success_rate,
            breakdown>>
uiVars == <<dash, pauses>>
histVars == <<mobileResults, uiBrowser>>
teardownVars == <<finallyRead, teardownAuth, teardownIdx, deleted, reported>>

navVars == <<navPc, attempt, gotoCalls, navSleeps, navErrors, navWarnings,
             navRaised>>

concVars == <<mainPc, mainIdx, workerPc, results_queue, successful_creations,
              created_project_ids, collected, session, work, concRate,
              concDeleted, concReported>>

tenantVars == <<tdPc, expected_tenant, project_cards, cardIdx, cardsChecked,
                tdResult>>

vars == <<test, flowVars, navVars, concVars, tenantVars>>

\* navigate_to_login, line 75.
max_retries == 3

\* test_concurrent_project_creation, line 635.
num_threads == 5

Workers == 0..(num_threads - 1)

\* The id the backend gives the project of worker w.
WorkerProjectId(w) == w + 1

NoResponse == [returned |-> FALSE, id |-> None, nameOk |-> FALSE, active |-> FALSE]

\* A browser: whether it was launched and is open or closed, whether the try
\* block that ends in browser.close() was entered with it, how often
\* browser.close() was called on it, and what closed it.
NoBrowser == [state |-> "none", tried |-> FALSE, closeCalls |-> 0,
              closedBy |-> "none"]

\* chromium.launch returned; tried tells whether the page was created as
\* well, so that the try block is entered.
Launched(tried) == [NoBrowser EXCEPT !.state = "open", !.tried = tried]

\* Leaving `with sync_playwright()`: the instance is stopped, which ends the
\* browsers it launched that are still open.
StopPlaywright(b) ==
  IF b.state = "open" THEN [b EXCEPT !.state = "closed", !.closedBy = "stop"]
                      ELSE b

\* browser.close() in a finally clause; ok tells whether it returned or
\* raised.  It closes a browser that is open; on one that is gone already
\* there is nothing left to close.
CloseBrowser(b, ok) ==
  [b EXCEPT !.closeCalls = @ + 1,
            !.state = IF b.state = "open" /\ ok THEN "closed" ELSE @,
            !.closedBy = IF b.state = "open" /\ ok THEN "close" ELSE @]

\* How launching the browser and creating its page can go.
LaunchOutcomes == {"ok", "launch_failed", "page_failed"}

\* A helper call: which procedure, on which device, where it is, whether the
\* project was found, the exception it is unwinding with, and what it gave
\* back to its caller ("true", "false" or "raise"); the state of the
\* Playwright instance that launched its browser, and whether the page or
\* the browser was used while that instance was not running.
IdleCall == [proc |-> "none", device |-> "none", step |-> "idle",
             found |-> FALSE, error |-> "none", result |-> "none",
             pw |-> "none", staleUse |-> FALSE, browser |-> NoBrowser]

\* A call on the page or the browser of the helper call c.
Use(c) == [c EXCEPT !.staleUse = @ \/ c.pw # "running"]

StartCall(proc, device) == [IdleCall EXCEPT !.proc = proc, !.device = device,
                                            !.step = "launch"]

\* What happens inside WebUITester.verify_project_in_dashboard: the card is
\* found; the card does not show up before the timeout; the wait on the card
\* raises something else than a timeout (page or browser gone); the project
\* list does not show up before the timeout; the click on the projects link
\* fails.
DashboardOutcomes == {"found", "card_timeout", "card_error", "list_timeout",
                      "click_failed"}

\* WebUITester.verify_project_in_dashboard: only the wait on the card is
\* inside the try (its `except Exception` takes every exception), the
\* navigation and the wait on the list are not.
VerifyProjectInDashboard(o) ==
  CASE o = "found" -> "true"
    [] o \in {"card_timeout", "card_error"} -> "false"
    [] OTHER -> "raise"

\* The timeout parameter: its default (line 147) and the value the mobile
\* procedure passes (line 232), in milliseconds.
DEFAULT_TIMEOUT_MS == 30000
MOBILE_TIMEOUT_MS == 45000

\* Time is counted in steps of 15 seconds.
Ticks(ms) == ms \div 15000

\* How long after its deadline the driver may report a timeout, in ticks.
MaxOvershoot == 1

\* When the wait on the card (line 163, deadline d ticks) can end, counted
\* from its start: the driver returns as soon as the card is visible, which
\* is before the deadline; it raises its timeout at the deadline or later;
\* any other error comes when it comes.  The other outcomes do not reach
\* the wait on the card.
CardWaitEnds(o, d) ==
  CASE o = "found" -> 0..(d - 1)
    [] o = "card_timeout" -> d..(d + MaxOvershoot)
    [] o = "card_error" -> 0..d
    [] OTHER -> {0}

\* One call of verify_project_in_dashboard with the given timeout: every
\* way it can go, with what it gives back.
DashboardRuns(timeout_ms) ==
  LET d == Ticks(timeout_ms) IN
  UNION {{[timeout |-> d, outcome |-> o, elapsed |-> t,
           result |-> VerifyProjectInDashboard(o)] : t \in CardWaitEnds(o, d)} :
         o \in DashboardOutcomes}

NoDash == [timeout |-> 0, outcome |-> "none", elapsed |-> 0, result |-> "none"]

NoIso == [calls |-> 0, reads |-> <<>>, authorized |-> "none",
          unauthorized |-> "none", result |-> "none"]

\* BrowserStackIntegration.test_cross_platform: the platforms list.
platforms == <<"chrome_windows", "safari_mac", "chrome_android", "safari_ios">>

PlatformSet == {platforms[i] : i \in 1..Len(platforms)}

\* The pieces of a platform name that the substring tests of
\* test_cross_platform (lines 331, 333) can match.
NameParts(platform) ==
  CASE platform = "chrome_windows" -> {"chrome", "windows"}
    [] platform = "safari_mac" -> {"safari", "mac"}
    [] platform = "chrome_android" -> {"chrome", "android"}
    [] platform = "safari_ios" -> {"safari", "ios"}

\* Python's `part in platform` for the parts the code asks about.
Contains(platform, part) == part \in NameParts(platform)

\* Line 331: which platforms go through the mobile procedure.
IsMobilePlatform(platform) ==
  \/ Contains(platform, "mobile")
  \/ Contains(platform, "android")
  \/ Contains(platform, "iphone")

\* Line 333.
DeviceType(platform) == IF Contains(platform, "ios") THEN "iphone" ELSE "android"

\* Line 510: sum(platform_results.values()) and len(platform_results).
CountTrue(results) == Cardinality({p \in DOMAIN results : results[p]})

\* Variant: the comparison of lines 511 and 678 written with > instead of >=.
MeetsThreshold_Strict(rate) == rate[1] * 10 > 8 * rate[2]

\* Lines 511 and 678: success_rate >= 0.8, the rate being M / N.  Python
\* divides in double precision; the quotient is correctly rounded, so for
\* these sizes it compares with the double 0.8 as M/N compares with 8/10.
ThresholdNum == 8
ThresholdDen == 10
\* Variant: a threshold of three quarters.
MeetsThreshold_ThreeQuarters(rate) == rate[1] * 4 >= 3 * rate[2]

MeetsThreshold(rate) == rate[1] * ThresholdDen >= ThresholdNum * rate[2]

\* Variant: a failure of the authorized read is logged and the verifier goes
\* on to the unauthorized read.
AuthorizedReadResult_GoOn(o) == "continue"

\* verify_tenant_isolation, lines 268-273: the authorized read.
AuthorizedReadResult(o) == IF GetProjectRaises(o) THEN "false" ELSE "continue"

\* Variant: the two branches of the unauthorized read exchanged.
UnauthorizedReadResult_Inverted(o) ==
  IF o # "200" THEN "false" ELSE "true"

\* verify_tenant_isolation, lines 276-282: the unauthorized read.
UnauthorizedReadResult(o) == IF GetProjectRaises(o) THEN "true" ELSE "false"

InitFlow ==
  /\ pc = "authenticate"
  /\ exc = "none"
  /\ project_response = NoResponse
  /\ createCalls = 0
  /\ created_project_id = None
  /\ cleanup_projects = <<>>
  /\ started = {}
  /\ succeeded = {}
  /\ stageError = "none"
  /\ call = IdleCall
  /\ dash = NoDash
  /\ pauses = 0
  /\ mobileResults = <<>>
  /\ uiBrowser = NoBrowser
  /\ iso = NoIso
  /\ platform_results = <<>>
  /\ platformIdx = 0
  /\ verifyRuns = [p \in PlatformSet |-> 0]
  /\ rawResults = <<>>
  /\ success_rate = <<0, 0>>
  /\ breakdown = {}
  /\ finallyRead = "none"
  /\ teardownAuth = "none"
  /\ teardownIdx = 0
  /\ deleted = <<>>
  /\ reported = "running"

\* An exception leaves the try block of the test: remember it as the error of
\* the stage that raised it and go to the except clause.
Raise(e) ==
  /\ exc' = e
  /\ stageError' = e
  /\ pc' = "except"

----
\* STEP 1 (lines 427-428): api_client.authenticate; it raises on a non-200
\* status, a missing token or a transport error, so the assert on the token
\* cannot fail after a normal return.
Flow_Authenticate ==
  /\ test = "flow" /\ pc = "authenticate"
  /\ started' = started \cup {StageCreate}
  /\ \E ok \in BOOLEAN :
       IF ok
         THEN pc' = "create" /\ UNCHANGED <<exc, stageError>>
         ELSE Raise("Authentication failed")
  /\ UNCHANGED <<test, tenantVars, navVars, concVars, histVars,
                 uiVars, createVars, succeeded, call, iso,
                 xpVars, teardownVars>>

\* Line 431: api_client.create_project raises on a status other than 200/201
\* (or a transport error), otherwise returns the response dict.
\* Variant: a failed create_project call is repeated once.
Flow_CreateProject_Retry ==
  /\ test = "flow" /\ pc = "create"
  /\ createCalls' = createCalls + 1
  /\ \/ /\ IF createCalls = 0
              THEN UNCHANGED <<pc, exc, stageError>>
              ELSE Raise("Project creation failed")
        /\ UNCHANGED project_response
     \/ /\ \E i \in ResponseIds, n \in BOOLEAN, a \in BOOLEAN :
             project_response' = [returned |-> TRUE, id |-> i,
                                  nameOk |-> n, active |-> a]
        /\ pc' = "register"
        /\ UNCHANGED <<exc, stageError>>
  /\ UNCHANGED <<test, tenantVars, navVars, concVars, histVars,
                 uiVars, created_project_id,
                 cleanup_projects, started, succeeded, call, iso, xpVars,
                 teardownVars>>

\* Lines 431 and 78-88: one create_project call; it raises unless the status
\* is 200 or 201.
Flow_CreateProject ==
  /\ test = "flow" /\ pc = "create"
  /\ createCalls' = createCalls + 1
  /\ \/ /\ Raise("Project creation failed")
        /\ UNCHANGED project_response
     \/ /\ \E i \in ResponseIds, n \in BOOLEAN, a \in BOOLEAN :
             project_response' = [returned |-> TRUE, id |-> i,
                                  nameOk |-> n, active |-> a]
        /\ pc' = "register"
        /\ UNCHANGED <<exc, stageError>>
  /\ UNCHANGED <<test, tenantVars, navVars, concVars, histVars,
                 uiVars, created_project_id,
                 cleanup_projects, started, succeeded, call, iso, xpVars,
                 teardownVars>>

\* Variant: the assert on the id (line 439) placed before the append.
Flow_Register_AssertFirst ==
  /\ test = "flow" /\ pc = "register"
  /\ created_project_id' = project_response.id
  /\ IF Truthy(project_response.id)
       THEN /\ cleanup_projects' = Append(cleanup_projects,
                                          <<project_response.id, COMPANY1_ID>>)
            /\ pc' = "assert_response"
            /\ UNCHANGED <<exc, stageError>>
       ELSE /\ Raise("No project ID returned from API")
            /\ UNCHANGED cleanup_projects
  /\ UNCHANGED <<test, tenantVars, navVars, concVars, histVars,
                 uiVars, project_response, createCalls,
                 started,
                 succeeded, call, iso, xpVars, teardownVars>>

\* Lines 432-436: read the id and track the project for cleanup.
Flow_Register ==
  /\ test = "flow" /\ pc = "register"
  /\ created_project_id' = project_response.id
  /\ cleanup_projects' = Append(cleanup_projects,
                                <<project_response.id, COMPANY1_ID>>)
  /\ pc' = "assert_response"
  /\ UNCHANGED <<test, tenantVars, navVars, concVars, histVars,
                 uiVars, exc, project_response,
                 createCalls, started,
                 succeeded, stageError, call, iso, xpVars, teardownVars>>

\* Lines 439-441: the three assertions on the create response.
Flow_AssertResponse ==
  /\ test = "flow" /\ pc = "assert_response"
  /\ IF ~Truthy(created_project_id)
       THEN Raise("No project ID returned from API")
            /\ UNCHANGED succeeded
       ELSE IF ~project_response.nameOk
         THEN Raise("AssertionError: name")
              /\ UNCHANGED succeeded
         ELSE IF ~project_response.active
           THEN Raise("AssertionError: status")
                /\ UNCHANGED succeeded
           ELSE /\ succeeded' = succeeded \cup {StageCreate}
                /\ pc' = "ui_launch"
                /\ UNCHANGED <<exc, stageError>>
  /\ UNCHANGED <<test, tenantVars, navVars, concVars, histVars,
                 uiVars, createVars, started, call, iso,
                 xpVars, teardownVars>>

----
\* STEP 2 (lines 448-450): start Playwright, launch the browser, open a page.
\* These are outside the inner try: when the launch raises there is no
\* browser; when new_page raises, the browser is not passed to close() and
\* is ended by the exit of the with block.
Flow_UiLaunch ==
  /\ test = "flow" /\ pc = "ui_launch"
  /\ started' = started \cup {StageUi}
  /\ \E o \in LaunchOutcomes :
       CASE o = "ok" ->
              /\ uiBrowser' = Launched(TRUE)
              /\ pc' = "ui_login"
              /\ UNCHANGED <<exc, stageError>>
         [] o = "launch_failed" ->
              Raise("Browser launch failed") /\ UNCHANGED uiBrowser
         [] OTHER ->
              /\ Raise("Page creation failed")
              /\ uiBrowser' = StopPlaywright(Launched(FALSE))
  /\ UNCHANGED <<test, tenantVars, navVars, concVars, mobileResults,
                 uiVars, createVars, succeeded, call, iso,
                 xpVars, teardownVars>>

\* Lines 453-454: web_tester.login; an exception unwinds through the finally.
Flow_UiLogin ==
  /\ test = "flow" /\ pc = "ui_login"
  /\ \E ok \in BOOLEAN :
       IF ok
         THEN pc' = "ui_sleep" /\ UNCHANGED <<exc, stageError>>
         ELSE exc' = "Login failed" /\ stageError' = "Login failed"
              /\ pc' = "ui_close"
  /\ UNCHANGED <<test, tenantVars, navVars, concVars, histVars,
                 uiVars, createVars, started, succeeded,
                 call, iso, xpVars, teardownVars>>

\* Line 457: time.sleep(2).
Flow_UiSleep ==
  /\ test = "flow" /\ pc = "ui_sleep"
  /\ pc' = "ui_verify"
  /\ pauses' = pauses + 1
  /\ UNCHANGED <<test, tenantVars, navVars, concVars, histVars,
                 dash, exc, stageError, createVars,
                 started, succeeded, call, iso, xpVars, teardownVars>>

\* Lines 460-461: verify_project_in_dashboard and the assert on its result.
Flow_UiVerify ==
  /\ test = "flow" /\ pc = "ui_verify"
  /\ \E run \in DashboardRuns(DEFAULT_TIMEOUT_MS) :
       LET r == run.result IN
       /\ dash' = run
       /\ IF r = "true"
            THEN pc' = "ui_details" /\ UNCHANGED <<exc, stageError>>
            ELSE LET e == IF r = "false"
                            THEN "Project not found in web dashboard"
                            ELSE "Dashboard error" IN
                 exc' = e /\ stageError' = e /\ pc' = "ui_close"
  /\ UNCHANGED <<test, tenantVars, navVars, concVars, histVars,
                 pauses, createVars, started, succeeded,
                 call, iso, xpVars, teardownVars>>

\* Line 464: verify_project_details (its expect calls raise on a mismatch).
Flow_UiDetails ==
  /\ test = "flow" /\ pc = "ui_details"
  /\ \E ok \in BOOLEAN :
       IF ok
         THEN UNCHANGED <<exc, stageError>>
         ELSE exc' = "Details mismatch" /\ stageError' = "Details mismatch"
  /\ pc' = "ui_close"
  /\ UNCHANGED <<test, tenantVars, navVars, concVars, histVars,
                 uiVars, createVars, started, succeeded,
                 call, iso, xpVars, teardownVars>>

\* Variant: the UI block swallows its exception and the test goes on.
Flow_UiClose_Swallow ==
  /\ test = "flow" /\ pc = "ui_close"
  /\ exc' = "none"
  /\ stageError' = "none"
  /\ succeeded' = IF exc = "none" THEN succeeded \cup {StageUi} ELSE succeeded
  /\ uiBrowser' = StopPlaywright(CloseBrowser(uiBrowser, TRUE))
  /\ pc' = "iphone"
  /\ UNCHANGED <<test, tenantVars, navVars, concVars, mobileResults,
                 uiVars, createVars, started, call, iso,
                 xpVars, teardownVars>>

\* Lines 468-469: finally: browser.close(), which may raise itself; then the
\* with block is left, and the exception in flight, if any, goes on to the
\* except clause of the test.
Flow_UiClose ==
  /\ test = "flow" /\ pc = "ui_close"
  /\ \E ok \in BOOLEAN :
       LET e == IF ok THEN exc ELSE "Browser close failed" IN
       /\ exc' = e
       /\ stageError' = e
       /\ uiBrowser' = StopPlaywright(CloseBrowser(uiBrowser, ok))
       /\ IF e = "none"
            THEN succeeded' = succeeded \cup {StageUi} /\ pc' = "iphone"
            ELSE UNCHANGED succeeded /\ pc' = "except"
  /\ UNCHANGED <<test, tenantVars, navVars, concVars, mobileResults,
                 uiVars, createVars, started, call, iso,
                 xpVars, teardownVars>>

----
\* MobileTester.test_mobile_accessibility (lines 220-241).

\* Line 224, create_mobile_browser (209-218): launch, new context, new page.
\* Outside the try: an exception here goes straight to the caller.  The
\* return statement is inside `with sync_playwright()`, so the Playwright
\* instance is stopped when the page is handed back; what the later calls on
\* that page do is left open (each may succeed or raise).
Mobile_CreateBrowser ==
  /\ test = "flow" /\ call.proc = "mobile" /\ call.step = "launch"
  /\ \E o \in LaunchOutcomes :
       call' =
         CASE o = "ok" ->
                [call EXCEPT !.step = "login", !.pw = "stopped",
                             !.browser = StopPlaywright(Launched(TRUE))]
           [] o = "launch_failed" ->
                [call EXCEPT !.step = "ret", !.result = "raise",
                             !.error = "Mobile browser launch failed"]
           [] OTHER ->
                [call EXCEPT !.step = "ret", !.result = "raise",
                             !.error = "Page creation failed",
                             !.pw = "stopped",
                             !.browser = StopPlaywright(Launched(FALSE))]
  /\ UNCHANGED <<test, tenantVars, navVars, concVars, histVars,
                 uiVars, pc, exc, stageError, createVars,
                 started, succeeded, iso, xpVars, teardownVars>>

\* Variant: no finally clause, so a failing login leaves the procedure
\* without browser.close().
Mobile_Login_NoFinally ==
  /\ test = "flow" /\ call.proc = "mobile" /\ call.step = "login"
  /\ \E ok \in BOOLEAN :
       IF ok
         THEN call' = [Use(call) EXCEPT !.step = "verify"]
         ELSE call' = [Use(call) EXCEPT !.step = "ret", !.result = "raise",
                                   !.error = "Login failed"]
  /\ UNCHANGED <<test, tenantVars, navVars, concVars, histVars,
                 uiVars, pc, exc, stageError, createVars,
                 started, succeeded, iso, xpVars, teardownVars>>

\* Lines 228-229: login on the mobile page.
Mobile_Login ==
  /\ test = "flow" /\ call.proc = "mobile" /\ call.step = "login"
  /\ \E ok \in BOOLEAN :
       IF ok
         THEN call' = [Use(call) EXCEPT !.step = "verify"]
         ELSE call' = [Use(call) EXCEPT !.step = "close",
                                   !.error = "Login failed"]
  /\ UNCHANGED <<test, tenantVars, navVars, concVars, histVars,
                 uiVars, pc, exc, stageError, createVars,
                 started, succeeded, iso, xpVars, teardownVars>>

\* Lines 232-234: verify_project_in_dashboard with the mobile timeout.
Mobile_Verify ==
  /\ test = "flow" /\ call.proc = "mobile" /\ call.step = "verify"
  /\ \E run \in DashboardRuns(MOBILE_TIMEOUT_MS) :
       LET r == run.result IN
       /\ dash' = run
       /\ call' = CASE r = "true" -> [Use(call) EXCEPT !.found = TRUE,
                                                  !.step = "interact"]
                    [] r = "false" -> [Use(call) EXCEPT !.step = "close"]
                    [] OTHER -> [Use(call) EXCEPT !.step = "close",
                                             !.error = "Dashboard error"]
  /\ UNCHANGED <<test, tenantVars, navVars, concVars, histVars,
                 pauses, pc, exc, stageError, createVars,
                 started, succeeded, iso, xpVars, teardownVars>>

\* Line 236: _test_mobile_interactions, only when the project was found.
Mobile_Interactions ==
  /\ test = "flow" /\ call.proc = "mobile" /\ call.step = "interact"
  /\ \E ok \in BOOLEAN :
       IF ok
         THEN call' = [Use(call) EXCEPT !.step = "close"]
         ELSE call' = [Use(call) EXCEPT !.step = "close",
                                   !.error = "Mobile interaction failed"]
  /\ UNCHANGED <<test, tenantVars, navVars, concVars, histVars,
                 uiVars, pc, exc, stageError, createVars,
                 started, succeeded, iso, xpVars, teardownVars>>

\* Lines 238-241: finally: browser.close(); then return found or let the
\* exception go on.
Mobile_Close ==
  /\ test = "flow" /\ call.proc = "mobile" /\ call.step = "close"
  /\ \E ok \in BOOLEAN :
       LET e == IF ok THEN call.error ELSE "Browser close failed" IN
       call' = [Use(call) EXCEPT !.step = "ret", !.error = e,
                  !.browser = CloseBrowser(call.browser, ok),
                  !.result = IF e # "none" THEN "raise"
                             ELSE IF call.found THEN "true" ELSE "false"]
  /\ UNCHANGED <<test, tenantVars, navVars, concVars, histVars,
                 uiVars, pc, exc, stageError, createVars,
                 started, succeeded, iso, xpVars, teardownVars>>

----
\* STEP 3 (lines 474-486): iPhone, then Android.

Flow_Iphone ==
  /\ test = "flow" /\ pc = "iphone" /\ call.step = "idle"
  /\ started' = started \cup {StageMobile}
  /\ call' = StartCall("mobile", "iphone")
  /\ pc' = "iphone_assert"
  /\ UNCHANGED <<test, tenantVars, navVars, concVars, histVars,
                 uiVars, exc, stageError, createVars,
                 succeeded, iso, xpVars, teardownVars>>

\* Variant: the result of the iPhone call is not asserted on.
Flow_IphoneAssert_Unchecked ==
  /\ test = "flow" /\ pc = "iphone_assert" /\ call.step = "ret"
  /\ call' = IdleCall
  /\ mobileResults' = ("iphone" :> call.result) @@ mobileResults
  /\ CASE call.result \in {"true", "false"} ->
            pc' = "android" /\ UNCHANGED <<exc, stageError>>
       [] OTHER -> Raise(call.error)
  /\ UNCHANGED <<test, tenantVars, navVars, concVars, uiVars, uiBrowser,
                 createVars, started,
                 succeeded, iso, xpVars, teardownVars>>

\* Lines 474-480: the iPhone call has returned or raised; the assert on what
\* it returned.
Flow_IphoneAssert ==
  /\ test = "flow" /\ pc = "iphone_assert" /\ call.step = "ret"
  /\ call' = IdleCall
  /\ mobileResults' = ("iphone" :> call.result) @@ mobileResults
  /\ CASE call.result = "true" -> pc' = "android" /\ UNCHANGED <<exc, stageError>>
       [] call.result = "false" -> Raise("Project not accessible on iPhone")
       [] OTHER -> Raise(call.error)
  /\ UNCHANGED <<test, tenantVars, navVars, concVars, uiVars, uiBrowser,
                 createVars, started,
                 succeeded, iso, xpVars, teardownVars>>

Flow_Android ==
  /\ test = "flow" /\ pc = "android" /\ call.step = "idle"
  /\ call' = StartCall("mobile", "android")
  /\ pc' = "android_assert"
  /\ UNCHANGED <<test, tenantVars, navVars, concVars, histVars,
                 uiVars, exc, stageError, createVars,
                 started, succeeded, iso, xpVars, teardownVars>>

\* Lines 483-486: the same for the Android call.
Flow_AndroidAssert ==
  /\ test = "flow" /\ pc = "android_assert" /\ call.step = "ret"
  /\ call' = IdleCall
  /\ mobileResults' = ("android" :> call.result) @@ mobileResults
  /\ CASE call.result = "true" ->
            /\ succeeded' = succeeded \cup {StageMobile}
            /\ pc' = "iso_authorized"
            /\ UNCHANGED <<exc, stageError>>
       [] call.result = "false" ->
            Raise("Project not accessible on Android") /\ UNCHANGED succeeded
       [] OTHER -> Raise(call.error) /\ UNCHANGED succeeded
  /\ UNCHANGED <<test, tenantVars, navVars, concVars, uiVars, uiBrowser,
                 createVars, started, iso,
                 xpVars, teardownVars>>

----
\* STEP 4 (lines 493-497) and TenantIsolationTester.verify_tenant_isolation.

\* Lines 494, 268-273: the call, and the read as the authorized tenant.
Flow_Isolation ==
  /\ test = "flow" /\ pc = "iso_authorized"
  /\ started' = started \cup {StageIsolation}
  /\ \E o \in GetOutcomes :
       LET r == AuthorizedReadResult(o) IN
       /\ iso' = [iso EXCEPT !.calls = @ + 1, !.authorized = o,
                             !.reads = Append(@, COMPANY1_ID),
                             !.result = IF r = "false" THEN "false" ELSE @]
       /\ pc' = IF r = "false" THEN "iso_assert" ELSE "iso_unauthorized"
  /\ UNCHANGED <<test, tenantVars, navVars, concVars, histVars,
                 uiVars, exc, stageError, createVars,
                 succeeded, call, xpVars, teardownVars>>

\* Lines 276-282: the read as the unauthorized tenant.
Isolation_UnauthorizedRead ==
  /\ test = "flow" /\ pc = "iso_unauthorized"
  /\ \E o \in GetOutcomes :
       iso' = [iso EXCEPT !.unauthorized = o,
                          !.reads = Append(@, COMPANY2_ID),
                          !.result = UnauthorizedReadResult(o)]
  /\ pc' = "iso_assert"
  /\ UNCHANGED <<test, tenantVars, navVars, concVars, histVars,
                 uiVars, exc, stageError, createVars,
                 started, succeeded, call, xpVars, teardownVars>>

\* Line 497.
Flow_IsolationAssert ==
  /\ test = "flow" /\ pc = "iso_assert"
  /\ IF iso.result = "true"
       THEN /\ succeeded' = succeeded \cup {StageIsolation}
            /\ pc' = "xp_call"
            /\ UNCHANGED <<exc, stageError>>
       ELSE Raise("Tenant isolation failed - SECURITY ISSUE!")
            /\ UNCHANGED succeeded
  /\ UNCHANGED <<test, tenantVars, navVars, concVars, histVars,
                 uiVars, createVars, started, call, iso,
                 xpVars, teardownVars>>

----
\* BrowserStackIntegration._test_desktop_platform (lines 347-360).

\* Lines 351-353, outside the try but inside `with sync_playwright()`, which
\* spans the whole procedure: the instance runs until the return.
Desktop_Launch ==
  /\ test = "flow" /\ call.proc = "desktop" /\ call.step = "launch"
  /\ \E o \in LaunchOutcomes :
       call' =
         CASE o = "ok" ->
                [call EXCEPT !.step = "login", !.pw = "running",
                             !.browser = Launched(TRUE)]
           [] o = "launch_failed" ->
                [call EXCEPT !.step = "ret", !.result = "raise",
                             !.error = "Browser launch failed"]
           [] OTHER ->
                [call EXCEPT !.step = "ret", !.result = "raise",
                             !.error = "Page creation failed",
                             !.pw = "stopped",
                             !.browser = StopPlaywright(Launched(FALSE))]
  /\ UNCHANGED <<test, tenantVars, navVars, concVars, histVars,
                 uiVars, pc, exc, stageError, createVars,
                 started, succeeded, iso, xpVars, teardownVars>>

\* Lines 356-357.
Desktop_Login ==
  /\ test = "flow" /\ call.proc = "desktop" /\ call.step = "login"
  /\ \E ok \in BOOLEAN :
       IF ok
         THEN call' = [Use(call) EXCEPT !.step = "verify"]
         ELSE call' = [Use(call) EXCEPT !.step = "close", !.error = "Login failed"]
  /\ UNCHANGED <<test, tenantVars, navVars, concVars, histVars,
                 uiVars, pc, exc, stageError, createVars,
                 started, succeeded, iso, xpVars, teardownVars>>

\* Line 358.
Desktop_Verify ==
  /\ test = "flow" /\ call.proc = "desktop" /\ call.step = "verify"
  /\ \E run \in DashboardRuns(DEFAULT_TIMEOUT_MS) :
       LET r == run.result IN
       /\ dash' = run
       /\ call' = CASE r = "true" -> [Use(call) EXCEPT !.found = TRUE,
                                                  !.step = "close"]
                    [] r = "false" -> [Use(call) EXCEPT !.step = "close"]
                    [] OTHER -> [Use(call) EXCEPT !.step = "close",
                                             !.error = "Dashboard error"]
  /\ UNCHANGED <<test, tenantVars, navVars, concVars, histVars,
                 pauses, pc, exc, stageError, createVars,
                 started, succeeded, iso, xpVars, teardownVars>>

\* Lines 359-360: browser.close(), then the return leaves the with block.
Desktop_Close ==
  /\ test = "flow" /\ call.proc = "desktop" /\ call.step = "close"
  /\ \E ok \in BOOLEAN :
       LET e == IF ok THEN call.error ELSE "Browser close failed" IN
       call' = [Use(call) EXCEPT !.step = "ret", !.error = e, !.pw = "stopped",
                  !.browser = StopPlaywright(CloseBrowser(call.browser, ok)),
                  !.result = IF e # "none" THEN "raise"
                             ELSE IF call.found THEN "true" ELSE "false"]
  /\ UNCHANGED <<test, tenantVars, navVars, concVars, histVars,
                 uiVars, pc, exc, stageError, createVars,
                 started, succeeded, iso, xpVars, teardownVars>>

----
\* STEP 5 (lines 504-511) and BrowserStackIntegration.test_cross_platform.

\* Lines 505, 319-324.
Flow_CrossPlatform ==
  /\ test = "flow" /\ pc = "xp_call"
  /\ started' = started \cup {StagePlatform}
  /\ platform_results' = <<>>
  /\ platformIdx' = 1
  /\ pc' = "xp_loop"
  /\ UNCHANGED <<test, tenantVars, navVars, concVars, histVars,
                 uiVars, exc, stageError, createVars,
                 succeeded, call, iso, verifyRuns, rawResults, success_rate,
                 breakdown, teardownVars>>

\* Lines 326-337: the next platform, sent to the mobile or desktop procedure.
CrossPlatform_Dispatch ==
  /\ test = "flow" /\ pc = "xp_loop" /\ call.step = "idle"
  /\ platformIdx <= Len(platforms)
  /\ LET platform == platforms[platformIdx] IN
       /\ call' = IF IsMobilePlatform(platform)
                    THEN StartCall("mobile", DeviceType(platform))
                    ELSE StartCall("desktop", "none")
       /\ verifyRuns' = [verifyRuns EXCEPT ![platform] = @ + 1]
  /\ pc' = "xp_record"
  /\ UNCHANGED <<test, tenantVars, navVars, concVars, histVars,
                 uiVars, exc, stageError, createVars,
                 started, succeeded, iso, platform_results, platformIdx,
                 rawResults, success_rate, breakdown,
                 teardownVars>>

\* Variant: no try/except around the body of the loop, so an exception of one
\* platform leaves test_cross_platform.
CrossPlatform_Record_Propagate ==
  /\ test = "flow" /\ pc = "xp_record" /\ call.step = "ret"
  /\ call' = IdleCall
  /\ rawResults' = (platforms[platformIdx] :> call.result) @@ rawResults
  /\ IF call.result = "raise"
       THEN /\ Raise(call.error)
            /\ UNCHANGED <<platform_results, platformIdx>>
       ELSE /\ platform_results' =
                 (platforms[platformIdx] :> (call.result = "true"))
                   @@ platform_results
            /\ platformIdx' = platformIdx + 1
            /\ pc' = "xp_loop"
            /\ UNCHANGED <<exc, stageError>>
  /\ UNCHANGED <<test, tenantVars, navVars, concVars, histVars,
                 uiVars, createVars, started, succeeded, iso,
                 verifyRuns, success_rate, breakdown,
                 teardownVars>>

\* Lines 339-343: record the result; an exception is caught and recorded as
\* False.
CrossPlatform_Record ==
  /\ test = "flow" /\ pc = "xp_record" /\ call.step = "ret"
  /\ platform_results' =
       (platforms[platformIdx] :> (call.result = "true")) @@ platform_results
  /\ rawResults' = (platforms[platformIdx] :> call.result) @@ rawResults
  /\ platformIdx' = platformIdx + 1
  /\ call' = IdleCall
  /\ pc' = "xp_loop"
  /\ UNCHANGED <<test, tenantVars, navVars, concVars, histVars,
                 uiVars, exc, stageError, createVars,
                 started, succeeded, iso, verifyRuns, success_rate,
                 breakdown, teardownVars>>

\* Line 345.
CrossPlatform_Return ==
  /\ test = "flow" /\ pc = "xp_loop"
  /\ platformIdx > Len(platforms)
  /\ pc' = "xp_assert"
  /\ UNCHANGED <<test, tenantVars, navVars, concVars, histVars,
                 uiVars, exc, stageError, createVars,
                 started, succeeded, call, iso, xpVars, teardownVars>>

\* Lines 510-511.
Flow_AssertSuccessRate ==
  /\ test = "flow" /\ pc = "xp_assert"
  /\ LET n == Cardinality(DOMAIN platform_results)
         rate == <<CountTrue(platform_results), n>> IN
       IF n = 0
         THEN Raise("ZeroDivisionError") /\ UNCHANGED <<success_rate, succeeded>>
         ELSE /\ success_rate' = rate
              /\ IF MeetsThreshold(rate)
                   THEN /\ succeeded' = succeeded \cup {StagePlatform}
                        /\ pc' = "xp_log"
                        /\ UNCHANGED <<exc, stageError>>
                   ELSE Raise("Cross-platform success rate too low")
                        /\ UNCHANGED succeeded
  /\ UNCHANGED <<test, tenantVars, navVars, concVars, histVars,
                 uiVars, createVars, started, call, iso,
                 platform_results, platformIdx, verifyRuns, rawResults,
                 breakdown, teardownVars>>

\* Lines 513-520: reached only when the assert of line 511 passed; one log
\* line per platform, naming it with its status.
Flow_LogResults ==
  /\ test = "flow" /\ pc = "xp_log"
  /\ breakdown' = DOMAIN platform_results
  /\ pc' = "finally"
  /\ UNCHANGED <<test, tenantVars, navVars, concVars, histVars,
                 uiVars, exc, stageError, createVars,
                 started, succeeded, call, iso, platform_results, platformIdx,
                 verifyRuns, rawResults, success_rate, teardownVars>>

----
\* Lines 522-524: log and re-raise.
Flow_Except ==
  /\ test = "flow" /\ pc = "except"
  /\ pc' = "finally"
  /\ UNCHANGED <<test, tenantVars, navVars, concVars, histVars,
                 uiVars, exc, stageError, createVars,
                 started, succeeded, call, iso, xpVars, teardownVars>>

\* Variant: the read of the finally block without its try/except.
Flow_Finally_Uncaught ==
  /\ test = "flow" /\ pc = "finally"
  /\ IF Truthy(created_project_id)
       THEN \E o \in GetOutcomes :
              /\ finallyRead' = o
              /\ exc' = IF o # "200" THEN "Failed to get project" ELSE exc
       ELSE finallyRead' = "skipped" /\ UNCHANGED exc
  /\ pc' = "teardown"
  /\ UNCHANGED <<test, tenantVars, navVars, concVars, histVars,
                 uiVars, stageError, createVars, started,
                 succeeded, call, iso, xpVars, teardownAuth, teardownIdx,
                 deleted, reported>>

\* Lines 526-534: the read before cleanup; its exception is caught.
Flow_Finally ==
  /\ test = "flow" /\ pc = "finally"
  /\ IF Truthy(created_project_id)
       THEN \E o \in GetOutcomes : finallyRead' = o
       ELSE finallyRead' = "skipped"
  /\ pc' = "teardown"
  /\ UNCHANGED <<test, tenantVars, navVars, concVars, histVars,
                 uiVars, exc, stageError, createVars,
                 started, succeeded, call, iso, xpVars, teardownAuth,
                 teardownIdx, deleted, reported>>

----
\* The cleanup_projects fixture after its yield (lines 386-397).

\* Lines 387-390; a failure is caught at 396-397, which skips the loop.
Teardown_Authenticate ==
  /\ test = "flow" /\ pc = "teardown"
  /\ \E ok \in BOOLEAN :
       IF ok
         THEN teardownAuth' = "ok" /\ teardownIdx' = 1 /\ pc' = "teardown_loop"
         ELSE teardownAuth' = "failed" /\ UNCHANGED teardownIdx /\ pc' = "report"
  /\ UNCHANGED <<test, tenantVars, navVars, concVars, histVars,
                 uiVars, exc, stageError, createVars,
                 started, succeeded, call, iso, xpVars, finallyRead, deleted,
                 reported>>

\* Variant: a delete that reports failure is tried a second time.
Teardown_Delete_Retry ==
  /\ test = "flow" /\ pc = "teardown_loop"
  /\ teardownIdx <= Len(cleanup_projects)
  /\ \E o \in DeleteOutcomes :
       LET d == [id |-> cleanup_projects[teardownIdx][1],
                 tenant |-> cleanup_projects[teardownIdx][2],
                 outcome |-> o,
                 ok |-> o \in {"200", "204", "404"}] IN
       deleted' = IF d.ok THEN Append(deleted, d)
                          ELSE Append(Append(deleted, d), d)
  /\ teardownIdx' = teardownIdx + 1
  /\ UNCHANGED <<test, tenantVars, navVars, concVars, histVars,
                 uiVars, pc, exc, stageError, createVars,
                 started, succeeded, call, iso, xpVars, finallyRead,
                 teardownAuth, reported>>

\* Lines 392-395: one delete_project call; its result is not looked at.
Teardown_Delete ==
  /\ test = "flow" /\ pc = "teardown_loop"
  /\ teardownIdx <= Len(cleanup_projects)
  /\ \E o \in DeleteOutcomes :
       deleted' = Append(deleted,
                         [id |-> cleanup_projects[teardownIdx][1],
                          tenant |-> cleanup_projects[teardownIdx][2],
                          outcome |-> o,
                          ok |-> DeleteProjectReturns(o)])
  /\ teardownIdx' = teardownIdx + 1
  /\ UNCHANGED <<test, tenantVars, navVars, concVars, histVars,
                 uiVars, pc, exc, stageError, createVars,
                 started, succeeded, call, iso, xpVars, finallyRead,
                 teardownAuth, reported>>

Teardown_LoopEnd ==
  /\ test = "flow" /\ pc = "teardown_loop"
  /\ teardownIdx > Len(cleanup_projects)
  /\ pc' = "report"
  /\ UNCHANGED <<test, tenantVars, navVars, concVars, histVars,
                 uiVars, exc, stageError, createVars,
                 started, succeeded, call, iso, xpVars, teardownVars>>

\* pytest: the test passed unless an exception left it.
Pytest_Report ==
  /\ test = "flow" /\ pc = "report"
  /\ reported' = IF exc = "none" THEN "passed" ELSE exc
  /\ pc' = "finished"
  /\ UNCHANGED <<test, tenantVars, navVars, concVars, histVars,
                 uiVars, exc, stageError, createVars,
                 started, succeeded, call, iso, xpVars, finallyRead,
                 teardownAuth, teardownIdx, deleted>>

----
\* LoginPage.navigate_to_login (part1_debug_solution.py, lines 73-92).

InitNav ==
  /\ navPc = "goto"
  /\ attempt = 0
  /\ gotoCalls = 0
  /\ navSleeps = 0
  /\ navErrors = <<>>
  /\ navWarnings = <<>>
  /\ navRaised = "none"

\* An attempt fails in the given step: the except clause is entered with the
\* exception e of that step, whose text is Playwright's and names the step.
NavFail(step) ==
  /\ navErrors' = Append(navErrors, [attempt |-> attempt, step |-> step,
                                     message |-> <<step>>])
  /\ navPc' = "handler"

\* Lines 78-79: page.goto.
Nav_Goto ==
  /\ test = "nav" /\ navPc = "goto"
  /\ gotoCalls' = gotoCalls + 1
  /\ \E ok \in BOOLEAN :
       IF ok THEN navPc' = "load" /\ UNCHANGED navErrors
             ELSE NavFail("goto")
  /\ UNCHANGED <<test, tenantVars, flowVars, concVars, attempt, navSleeps, navWarnings,
                 navRaised>>

\* Line 82: wait_for_load_state.
Nav_WaitForLoadState ==
  /\ test = "nav" /\ navPc = "load"
  /\ \E ok \in BOOLEAN :
       IF ok THEN navPc' = "expect" /\ UNCHANGED navErrors
             ELSE NavFail("wait_for_load_state")
  /\ UNCHANGED <<test, tenantVars, flowVars, concVars, attempt, gotoCalls, navSleeps,
                 navWarnings, navRaised>>

\* Lines 85-86: the URL check, then return.
Nav_ExpectUrl ==
  /\ test = "nav" /\ navPc = "expect"
  /\ \E ok \in BOOLEAN :
       IF ok THEN navPc' = "returned" /\ UNCHANGED navErrors
             ELSE NavFail("expect_url")
  /\ UNCHANGED <<test, tenantVars, flowVars, concVars, attempt, gotoCalls, navSleeps,
                 navWarnings, navRaised>>

\* Variant: the test of line 90 off by one.
LastAttempt_OffByOne(a) == a = 3

\* Line 90: is this the last attempt?
LastAttempt(a) == a = max_retries - 1

\* Variant: the delay is taken before the test of line 90, so also after
\* the last failed attempt.
Nav_Handler_SleepOnLast ==
  /\ test = "nav" /\ navPc = "handler"
  /\ navWarnings' = Append(navWarnings, attempt + 1)
  /\ IF LastAttempt(attempt)
       THEN /\ navRaised' = navErrors[Len(navErrors)]
            /\ navSleeps' = navSleeps + 1
            /\ navPc' = "raised"
       ELSE /\ navPc' = "sleep"
            /\ UNCHANGED <<navRaised, navSleeps>>
  /\ UNCHANGED <<test, tenantVars, flowVars, concVars, attempt, gotoCalls, navErrors>>

\* Lines 88-91: log the attempt number with the error's text, and on the last
\* attempt re-raise the exception being handled (a bare raise: the object is
\* not changed).
Nav_Handler ==
  /\ test = "nav" /\ navPc = "handler"
  /\ navWarnings' = Append(navWarnings, attempt + 1)
  /\ IF LastAttempt(attempt)
       THEN /\ navRaised' = navErrors[Len(navErrors)]
            /\ navPc' = "raised"
       ELSE /\ navPc' = "sleep"
            /\ UNCHANGED navRaised
  /\ UNCHANGED <<test, tenantVars, flowVars, concVars, attempt, gotoCalls, navSleeps,
                 navErrors>>

\* Line 92, then the next iteration of the for loop.
Nav_Sleep ==
  /\ test = "nav" /\ navPc = "sleep"
  /\ navSleeps' = navSleeps + 1
  /\ attempt' = attempt + 1
  /\ navPc' = IF attempt + 1 < max_retries THEN "goto" ELSE "returned"
  /\ UNCHANGED <<test, tenantVars, flowVars, concVars, gotoCalls, navErrors, navWarnings,
                 navRaised>>

----
\* test_concurrent_project_creation (part3_integration_test.py, 627-689).

\* Variant: one APIClient shared by all the workers.
ClientOf_Shared(w) == 0

\* Line 639: api_client = APIClient() inside the worker, so every worker has
\* an instance of its own; instances are named after their worker.
ClientOf(w) == w

Clients == {ClientOf(w) : w \in Workers}

\* Line 643: name=f"Concurrent Test Project {worker_id}".
ProjectName(w) == <<"Concurrent Test Project", w>>

\* A worker that has not done anything yet.
NoWork == [client |-> None, creates |-> 0, name |-> <<>>, token |-> None,
           failedAt |-> "none"]

InitConc ==
  /\ mainPc = "start"
  /\ mainIdx = 0
  /\ workerPc = [w \in Workers |-> "unstarted"]
  /\ results_queue = <<>>
  /\ successful_creations = 0
  /\ created_project_ids = <<>>
  /\ collected = <<>>
  /\ session = [c \in Clients |-> None]
  /\ work = [w \in Workers |-> NoWork]
  /\ concRate = <<0, 0>>
  /\ concDeleted = <<>>
  /\ concReported = "running"

\* Lines 657-660: start the threads one after the other.
Main_StartThread ==
  /\ test = "conc" /\ mainPc = "start"
  /\ IF mainIdx < num_threads
       THEN /\ workerPc' = [workerPc EXCEPT ![mainIdx] = "authenticate"]
            /\ mainIdx' = mainIdx + 1
            /\ UNCHANGED mainPc
       ELSE /\ mainPc' = "join"
            /\ mainIdx' = 0
            /\ UNCHANGED workerPc
  /\ UNCHANGED <<test, tenantVars, flowVars, navVars, results_queue, successful_creations,
                 created_project_ids, collected, session, work, concRate,
                 concDeleted, concReported>>

\* Variant: a failing worker ends without putting anything on the queue.
Put_OnlySuccess(w, success, id) ==
  /\ results_queue' = IF success THEN Append(results_queue, <<w, success, id>>)
                                 ELSE results_queue
  /\ workerPc' = [workerPc EXCEPT ![w] = "done"]

\* results_queue.put of line 649 or 653.
Put(w, success, id) ==
  /\ results_queue' = Append(results_queue, <<w, success, id>>)
  /\ workerPc' = [workerPc EXCEPT ![w] = "done"]

\* Variant: a worker whose authenticate fails never ends (nothing is put, the
\* thread does not finish).
Worker_Authenticate_Hang ==
  /\ test = "conc"
  /\ \E w \in Workers :
       /\ workerPc[w] = "authenticate"
       /\ LET c == ClientOf(w) IN
          \E ok \in BOOLEAN :
            IF ok
              THEN /\ workerPc' = [workerPc EXCEPT ![w] = "create"]
                   /\ session' = [session EXCEPT ![c] = w]
                   /\ work' = [work EXCEPT ![w].client = c]
                   /\ UNCHANGED results_queue
              ELSE /\ workerPc' = [workerPc EXCEPT ![w] = "hung"]
                   /\ work' = [work EXCEPT ![w].client = c,
                                           ![w].failedAt = "authenticate"]
                   /\ UNCHANGED <<session, results_queue>>
  /\ UNCHANGED <<test, tenantVars, flowVars, navVars, mainPc, mainIdx,
                 successful_creations, created_project_ids, collected,
                 concRate, concDeleted, concReported>>

\* Lines 639-640: the worker builds its own APIClient and authenticates it,
\* which writes the token into that client's session (line 62); on an
\* exception 651-653 (the header is not written).
Worker_Authenticate ==
  /\ test = "conc"
  /\ \E w \in Workers :
       /\ workerPc[w] = "authenticate"
       /\ LET c == ClientOf(w) IN
          \E ok \in BOOLEAN :
            IF ok
              THEN /\ workerPc' = [workerPc EXCEPT ![w] = "create"]
                   /\ session' = [session EXCEPT ![c] = w]
                   /\ work' = [work EXCEPT ![w].client = c]
                   /\ UNCHANGED results_queue
              ELSE /\ Put(w, FALSE, None)
                   /\ work' = [work EXCEPT ![w].client = c,
                                           ![w].failedAt = "authenticate"]
                   /\ UNCHANGED session
  /\ UNCHANGED <<test, tenantVars, flowVars, navVars, mainPc, mainIdx,
                 successful_creations, created_project_ids, collected,
                 concRate, concDeleted, concReported>>

\* What one create_project call of a worker leaves in its history: the name
\* of line 643 and the token of the session the request went out with.
Created(w) ==
  [work[w] EXCEPT !.creates = @ + 1,
                  !.name = ProjectName(w),
                  !.token = session[work[w].client]]

\* Variant: a worker gives up, reporting a failure without calling
\* create_project, once a sibling has reported a failure.
Worker_CreateProject_SharedAbort ==
  /\ test = "conc"
  /\ \E w \in Workers :
       /\ workerPc[w] = "create"
       /\ IF \E i \in 1..Len(results_queue) : ~results_queue[i][2]
            THEN Put(w, FALSE, None) /\ UNCHANGED work
            ELSE \/ /\ Put(w, FALSE, None)
                    /\ work' = [work EXCEPT ![w] =
                                  [Created(w) EXCEPT !.failedAt = "create_project"]]
                 \/ /\ \E id \in {None, WorkerProjectId(w)} : Put(w, TRUE, id)
                    /\ work' = [work EXCEPT ![w] = Created(w)]
  /\ UNCHANGED <<test, tenantVars, flowVars, navVars, mainPc, mainIdx,
                 successful_creations, created_project_ids, collected,
                 session, concRate, concDeleted, concReported>>

\* Lines 642-649 (create_project, put the result); on an exception 651-653.
Worker_CreateProject ==
  /\ test = "conc"
  /\ \E w \in Workers :
       /\ workerPc[w] = "create"
       /\ \/ /\ Put(w, FALSE, None)
             /\ work' = [work EXCEPT ![w] =
                           [Created(w) EXCEPT !.failedAt = "create_project"]]
          \/ /\ \E id \in {None, WorkerProjectId(w)} : Put(w, TRUE, id)
             /\ work' = [work EXCEPT ![w] = Created(w)]
  /\ UNCHANGED <<test, tenantVars, flowVars, navVars, mainPc, mainIdx,
                 successful_creations, created_project_ids, collected,
                 session, concRate, concDeleted, concReported>>

\* Lines 663-664: join the threads in the order they were started.
Main_Join ==
  /\ test = "conc" /\ mainPc = "join"
  /\ IF mainIdx < num_threads
       THEN /\ workerPc[mainIdx] = "done"
            /\ mainIdx' = mainIdx + 1
            /\ UNCHANGED mainPc
       ELSE /\ mainPc' = "collect"
            /\ mainIdx' = 0
  /\ UNCHANGED <<test, tenantVars, flowVars, navVars, workerPc, results_queue,
                 successful_creations, created_project_ids, collected, session, work,
                 concRate, concDeleted, concReported>>

\* Lines 670-674: take one tuple from the queue.
Main_Collect ==
  /\ test = "conc" /\ mainPc = "collect"
  /\ results_queue # <<>>
  /\ LET r == Head(results_queue) IN
       /\ collected' = Append(collected, r)
       /\ IF r[2]
            THEN /\ successful_creations' = successful_creations + 1
                 /\ created_project_ids' = Append(created_project_ids, r[3])
            ELSE UNCHANGED <<successful_creations, created_project_ids>>
  /\ results_queue' = Tail(results_queue)
  /\ UNCHANGED <<test, tenantVars, flowVars, navVars, mainPc, mainIdx, workerPc, session, work,
                 concRate, concDeleted, concReported>>

\* Lines 670, 677-678: the queue is empty; compute the rate and assert on it.
Main_AssertSuccessRate ==
  /\ test = "conc" /\ mainPc = "collect"
  /\ results_queue = <<>>
  /\ LET rate == <<successful_creations, num_threads>> IN
       /\ concRate' = rate
       /\ IF MeetsThreshold(rate)
            THEN mainPc' = "cleanup" /\ UNCHANGED concReported
            ELSE /\ mainPc' = "finished"
                 /\ concReported' = "Concurrent creation success rate too low"
  /\ UNCHANGED <<test, tenantVars, flowVars, navVars, mainIdx, workerPc, results_queue,
                 successful_creations, created_project_ids, collected, session, work,
                 concDeleted>>

\* Lines 683-685; a failure is caught at 688-689, which skips the loop.
Main_CleanupAuthenticate ==
  /\ test = "conc" /\ mainPc = "cleanup"
  /\ \E ok \in BOOLEAN :
       IF ok
         THEN mainPc' = "cleanup_loop" /\ mainIdx' = 1 /\ UNCHANGED concReported
         ELSE mainPc' = "finished" /\ concReported' = "passed"
              /\ UNCHANGED mainIdx
  /\ UNCHANGED <<test, tenantVars, flowVars, navVars, workerPc, results_queue,
                 successful_creations, created_project_ids, collected, session, work,
                 concRate, concDeleted>>

\* Lines 686-687: delete_project for the next id, or the end of the test.
Main_CleanupDelete ==
  /\ test = "conc" /\ mainPc = "cleanup_loop"
  /\ IF mainIdx <= Len(created_project_ids)
       THEN /\ concDeleted' = Append(concDeleted, created_project_ids[mainIdx])
            /\ mainIdx' = mainIdx + 1
            /\ UNCHANGED <<mainPc, concReported>>
       ELSE /\ mainPc' = "finished"
            /\ concReported' = "passed"
            /\ UNCHANGED <<mainIdx, concDeleted>>
  /\ UNCHANGED <<test, tenantVars, flowVars, navVars, workerPc, results_queue,
                 successful_creations, created_project_ids, collected, session, work,
                 concRate>>

----
\* DashboardPage.verify_tenant_data (part1_debug_solution.py, lines 159-169),
\* as test_multi_tenant_access_fixed calls it.

\* The tenant names that show up on cards.
TenantNames == {"Company1", "Company2"}

\* Most cards the dashboard shows.
MaxCards == 3

\* A card's text, as the sequence of the names written on it.
CardTexts == {<<>>, <<"Company1">>, <<"Company2">>, <<"Company1", "Company2">>}

CardLists(n) == UNION {[1..k -> CardTexts] : k \in 0..n}

\* Line 169: expected_tenant in card_text.
InText(name, text) == \E i \in 1..Len(text) : text[i] = name

\* The argument is any tenant name when the function is the one under test
\* (test_multi_tenant_access_fixed passes "Company2", line 227).
InitTenant ==
  /\ tdPc = "get_cards"
  /\ expected_tenant \in IF test = "tenant" THEN TenantNames ELSE {"Company2"}
  /\ project_cards = <<>>
  /\ cardIdx = 0
  /\ cardsChecked = 0
  /\ tdResult = "none"

\* Lines 161, 150-157: get_project_cards waits for a card or the empty state
\* (the wait can time out, which leaves verify_tenant_data) and returns the
\* cards there are, none in the empty state.
Tenant_GetCards ==
  /\ test = "tenant" /\ tdPc = "get_cards"
  /\ \/ /\ tdResult' = "TimeoutError"
        /\ tdPc' = "done"
        /\ UNCHANGED project_cards
     \/ /\ project_cards' \in CardLists(MaxCards)
        /\ tdPc' = "empty_check"
        /\ UNCHANGED tdResult
  /\ UNCHANGED <<test, flowVars, navVars, concVars, expected_tenant, cardIdx,
                 cardsChecked>>

\* Lines 163-165: no cards: log a warning and return.
Tenant_EmptyCheck ==
  /\ test = "tenant" /\ tdPc = "empty_check"
  /\ IF project_cards = <<>>
       THEN tdResult' = "passed" /\ tdPc' = "done" /\ UNCHANGED cardIdx
       ELSE cardIdx' = 1 /\ tdPc' = "loop" /\ UNCHANGED tdResult
  /\ UNCHANGED <<test, flowVars, navVars, concVars, expected_tenant,
                 project_cards, cardsChecked>>

\* Variant: a card without the expected name is skipped.
Tenant_CheckCard_Skip ==
  /\ test = "tenant" /\ tdPc = "loop"
  /\ cardIdx <= Len(project_cards)
  /\ cardsChecked' = cardsChecked + 1
  /\ cardIdx' = cardIdx + 1
  /\ UNCHANGED <<test, flowVars, navVars, concVars, expected_tenant,
                 project_cards, tdPc, tdResult>>

\* Lines 167-169: read the text of the next card and assert on it.
Tenant_CheckCard ==
  /\ test = "tenant" /\ tdPc = "loop"
  /\ cardIdx <= Len(project_cards)
  /\ cardsChecked' = cardsChecked + 1
  /\ IF InText(expected_tenant, project_cards[cardIdx])
       THEN cardIdx' = cardIdx + 1 /\ UNCHANGED <<tdPc, tdResult>>
       ELSE tdResult' = "AssertionError" /\ tdPc' = "done" /\ UNCHANGED cardIdx
  /\ UNCHANGED <<test, flowVars, navVars, concVars, expected_tenant,
                 project_cards>>

\* The end of the for loop: the function returns (None).
Tenant_Return ==
  /\ test = "tenant" /\ tdPc = "loop"
  /\ cardIdx > Len(project_cards)
  /\ tdResult' = "passed"
  /\ tdPc' = "done"
  /\ UNCHANGED <<test, flowVars, navVars, concVars, expected_tenant,
                 project_cards, cardIdx, cardsChecked>>

----
Tests == {"flow", "nav", "conc", "tenant"}

Init ==
  /\ test \in Tests
  /\ InitFlow
  /\ InitNav
  /\ InitConc
  /\ InitTenant

Next ==
  \/ Flow_Authenticate
  \/ Flow_CreateProject
  \/ Flow_Register
  \/ Flow_AssertResponse
  \/ Flow_UiLaunch
  \/ Flow_UiLogin
  \/ Flow_UiSleep
  \/ Flow_UiVerify
  \/ Flow_UiDetails
  \/ Flow_UiClose
  \/ Mobile_CreateBrowser
  \/ Mobile_Login
  \/ Mobile_Verify
  \/ Mobile_Interactions
  \/ Mobile_Close
  \/ Flow_Iphone
  \/ Flow_IphoneAssert
  \/ Flow_Android
  \/ Flow_AndroidAssert
  \/ Flow_Isolation
  \/ Isolation_UnauthorizedRead
  \/ Flow_IsolationAssert
  \/ Desktop_Launch
  \/ Desktop_Login
  \/ Desktop_Verify
  \/ Desktop_Close
  \/ Flow_CrossPlatform
  \/ CrossPlatform_Dispatch
  \/ CrossPlatform_Record
  \/ CrossPlatform_Return
  \/ Flow_AssertSuccessRate
  \/ Flow_LogResults
  \/ Flow_Except
  \/ Flow_Finally
  \/ Teardown_Authenticate
  \/ Teardown_Delete
  \/ Teardown_LoopEnd
  \/ Pytest_Report
  \/ Nav_Goto
  \/ Nav_WaitForLoadState
  \/ Nav_ExpectUrl
  \/ Nav_Handler
  \/ Nav_Sleep
  \/ Main_StartThread
  \/ Worker_Authenticate
  \/ Worker_CreateProject
  \/ Main_Join
  \/ Main_Collect
  \/ Main_AssertSuccessRate
  \/ Main_CleanupAuthenticate
  \/ Main_CleanupDelete
  \/ Tenant_GetCards
  \/ Tenant_EmptyCheck
  \/ Tenant_CheckCard
  \/ Tenant_Return

Spec == Init /\ [][Next]_vars

\* Every external call completes, times out or raises, and every thread
\* that can run is eventually run: a step that can be taken is taken.
LiveSpec == Spec /\ WF_vars(Next)

----
\* Properties of the harness.

\* Number of delete_project calls the fixture made for the given id.
DeleteCount(id) == Cardinality({i \in 1..Len(deleted) : deleted[i].id = id})

FlowFinished == test = "flow" /\ pc = "finished"

ReadDenied(o) == o \in {"403", "404"}

\* C2: verify_tenant_isolation returns true if and only if the authorized
\* tenant's read succeeded and the unauthorized tenant's read was denied
\* (Forbidden or NotFound); it returns false if the authorized read failed
\* or the unauthorized read succeeded.
C2_IsolationIff ==
  iso.result # "none" =>
    /\ (iso.result = "true")
         <=> (iso.authorized = "200" /\ ReadDenied(iso.unauthorized))
    /\ (iso.authorized # "200" \/ iso.unauthorized = "200")
         => iso.result = "false"

\* C3: page.goto is invoked at most max_retries times, and when
\* navigate_to_login returns after k failed attempts, k < max_retries and
\* goto was invoked exactly k + 1 times (returning ends the invocations).
C3_RetryBound ==
  /\ gotoCalls <= max_retries
  /\ navPc = "returned" =>
       /\ Len(navErrors) < max_retries
       /\ gotoCalls = Len(navErrors) + 1

\* Two failed attempts, then a successful third one.
C3_Witness ==
  /\ test = "nav" /\ navPc = "returned"
  /\ Len(navErrors) = 2
  /\ gotoCalls = 3

\* The ids of the tuples collected with success = True.
CollectedCreated == {collected[i][3] : i \in {j \in 1..Len(collected) : collected[j][2]}}

ConcDeletedSet == {concDeleted[i] : i \in 1..Len(concDeleted)}

\* C4, for a rate below the threshold: when test_concurrent_project_creation
\* has ended, delete_project has been called for every successfully created
\* entity although the success rate was below 0.8.
C4_DeletedWhenBelowThreshold ==
  (test = "conc" /\ mainPc = "finished"
     /\ concReported = "Concurrent creation success rate too low")
    => CollectedCreated \subseteq ConcDeletedSet

\* Positions of the test after an exception has left a stage: the finally of
\* the UI block, the except and finally clauses, the fixture teardown.
CleanupPath == {"ui_close", "except", "finally", "teardown", "teardown_loop",
                "report", "finished"}

\* C5: a stage starts only after every earlier stage has succeeded; once a
\* stage has failed the test is on its way to cleanup, no later stage having
\* started; and the test passes only if all five stages succeeded.
C5_StagesInOrder ==
  /\ succeeded \subseteq started
  /\ \A s \in started : \A t \in Stages : t < s => t \in succeeded
  /\ exc # "none" =>
       /\ pc \in CleanupPath
       /\ Cardinality(started \ succeeded) = 1
  /\ reported = "passed" => succeeded = Stages

\* The Android check failed: stages 4 and 5 never started, the run failed.
C5_Witness ==
  /\ FlowFinished
  /\ started = {StageCreate, StageUi, StageMobile}
  /\ succeeded = {StageCreate, StageUi}
  /\ reported # "passed"

\* C6: a run in which the unauthorized tenant's read succeeded never passes
\* and never gets to the cross-platform stage, and verify_tenant_isolation
\* is called at most once in a run.
C6_SecurityViolationFatal ==
  /\ iso.calls <= 1
  /\ iso.unauthorized = "200" =>
       /\ reported # "passed"
       /\ StagePlatform \notin started
       /\ success_rate = <<0, 0>>
       /\ FlowFinished => reported = "Tenant isolation failed - SECURITY ISSUE!"

\* The unauthorized read succeeded and the run ended in the security failure.
C6_Witness ==
  /\ FlowFinished
  /\ iso.unauthorized = "200"
  /\ reported = "Tenant isolation failed - SECURITY ISSUE!"

\* Number of collected tuples with success = True.
CollectedSuccesses == Cardinality({j \in 1..Len(collected) : collected[j][2]})

\* C7: the rate computed from a result map with N entries, M of them true,
\* is M/N, and the stage (or the concurrent test) is accepted exactly when
\* M/N >= 0.8, that is 5*M >= 4*N; for concurrent creation N is the number
\* of workers.
C7_RateAndThreshold ==
  /\ success_rate # <<0, 0>> =>
       /\ success_rate = <<CountTrue(platform_results), Len(platforms)>>
       /\ (StagePlatform \in succeeded)
            <=> 5 * CountTrue(platform_results) >= 4 * Len(platforms)
  /\ concRate # <<0, 0>> =>
       /\ concRate = <<CollectedSuccesses, num_threads>>
       /\ (concReported # "Concurrent creation success rate too low")
            <=> 5 * CollectedSuccesses >= 4 * num_threads

\* Four of five workers succeeded and the test went on to its cleanup.
C7_Witness ==
  /\ test = "conc"
  /\ concRate = <<4, 5>>
  /\ mainPc = "cleanup"

\* Three of four platforms passed and the run was rejected.
C7_WitnessRejected ==
  /\ test = "flow"
  /\ success_rate = <<3, 4>>
  /\ exc = "Cross-platform success rate too low"

PlatformsBefore(i) == {platforms[j] : j \in 1..(i - 1)}

\* C8: test_cross_platform verifies each platform at most once and in the
\* end exactly once; the map holds one boolean for each platform verified so
\* far, False exactly where the verification returned False or raised; and
\* no exception leaves test_cross_platform, which returns the full map.
C8_FanOutIsolatesFailures ==
  /\ \A p \in PlatformSet : verifyRuns[p] <= 1
  /\ DOMAIN platform_results = DOMAIN rawResults
  /\ \A p \in DOMAIN platform_results :
       /\ platform_results[p] \in BOOLEAN
       /\ platform_results[p] <=> rawResults[p] = "true"
  /\ pc \in {"xp_loop", "xp_record"} =>
       /\ DOMAIN platform_results = PlatformsBefore(platformIdx)
       /\ \A i \in 1..Len(platforms) :
            verifyRuns[platforms[i]] =
              IF i < platformIdx \/ (i = platformIdx /\ pc = "xp_record")
                THEN 1 ELSE 0
  /\ (StagePlatform \in started /\ pc \notin {"xp_loop", "xp_record"}) =>
       /\ DOMAIN platform_results = PlatformSet
       /\ \A p \in PlatformSet : verifyRuns[p] = 1

\* The first platform raised, a later one passed, and the map was returned.
C8_Witness ==
  /\ test = "flow" /\ pc = "xp_assert"
  /\ rawResults[platforms[1]] = "raise"
  /\ platform_results[platforms[1]] = FALSE
  /\ platform_results[platforms[4]] = TRUE

\* C9: from the moment create_project has returned, either the test is at
\* the registration (lines 432-436, which cannot fail) with no exception
\* raised, or the (id, tenant) pair is in the cleanup registry.
C9_RegisteredBeforeAnyFailure ==
  project_response.returned =>
    IF pc = "register"
      THEN exc = "none" /\ cleanup_projects = <<>>
      ELSE cleanup_projects = << <<project_response.id, COMPANY1_ID>> >>

\* The response had no id: the assert failed, the pair was registered before.
C9_Witness ==
  /\ test = "flow" /\ pc = "except"
  /\ exc = "No project ID returned from API"
  /\ cleanup_projects = << <<None, COMPANY1_ID>> >>

\* C10: what pytest reports at the end is the error of the stage that
\* failed, or "passed" when no stage failed, whatever happened in the finally
\* block's read, the fixture's authentication and its deletes.
C10_CleanupNeverMasks ==
  FlowFinished =>
    /\ reported = IF stageError = "none" THEN "passed" ELSE stageError
    /\ succeeded = Stages => reported = "passed"
    /\ succeeded # Stages => reported # "passed"

\* A stage failed, and then the read of the finally block failed and a
\* delete reported failure: the stage's error is what is reported.
C10_Witness ==
  /\ FlowFinished
  /\ reported = "Project not accessible on iPhone"
  /\ finallyRead = "timeout"
  /\ \E i \in 1..Len(deleted) : ~deleted[i].ok

\* All stages passed and the fixture's authentication failed: still passed.
C10_WitnessPassed ==
  /\ FlowFinished
  /\ succeeded = Stages
  /\ teardownAuth = "failed"
  /\ finallyRead = "500"
  /\ reported = "passed"

\* The outcomes in which the wait on the card (line 163) took place.
CardWaitOutcomes == {"found", "card_timeout", "card_error"}

\* C11: the wait on the project card reports success before its deadline,
\* and when it reports failure the deadline has elapsed.
C11_WaitDeadline ==
  dash.outcome \in CardWaitOutcomes =>
    /\ dash.result = "true" => dash.elapsed < dash.timeout
    /\ dash.result = "false" => dash.elapsed >= dash.timeout

\* Every tuple put on the queue so far, in the order of the puts.
Reports == collected \o results_queue

TuplesOf(w) == {i \in 1..Len(Reports) : Reports[i][1] = w}

AfterJoin == mainPc \in {"collect", "cleanup", "cleanup_loop", "finished"}

\* C12: every worker puts exactly one (worker_id, success, id) tuple on the
\* queue, whatever the interleaving: none while it runs, one once it has
\* ended; after the joins there are num_threads tuples with pairwise distinct
\* worker ids, and the rate is (tuples with success = True) / num_threads,
\* computed over all of them.
C12_OneTuplePerWorker ==
  /\ \A w \in Workers :
       Cardinality(TuplesOf(w)) = IF workerPc[w] = "done" THEN 1 ELSE 0
  /\ AfterJoin =>
       /\ Len(Reports) = num_threads
       /\ {Reports[i][1] : i \in 1..Len(Reports)} = Workers
  /\ concRate # <<0, 0>> =>
       /\ Len(collected) = num_threads
       /\ concRate[1] = Cardinality({i \in 1..num_threads : collected[i][2]})
       /\ concRate[2] = num_threads

\* All workers joined, the tuples arrived in an order other than the start
\* order, and both outcomes are among them.
C12_Witness ==
  /\ test = "conc"
  /\ concRate = <<3, 5>>
  /\ collected[1][1] = 4
  /\ collected[5][1] = 0

\* C13: a worker's tuple reports a failure exactly when its own authenticate
\* or create_project raised, and then it is (worker_id, False, None); a
\* worker whose own calls went through reports success whatever its siblings
\* did, and the joins are passed only when every worker has ended.
C13_WorkerFailureIsLocal ==
  /\ \A i \in 1..Len(Reports) :
       LET w == Reports[i][1] IN
         /\ Reports[i][2] <=> (work[w].failedAt = "none" /\ work[w].creates = 1)
         /\ ~Reports[i][2] =>
              /\ Reports[i] = <<w, FALSE, None>>
              /\ work[w].failedAt \in {"authenticate", "create_project"}
  /\ AfterJoin => \A w \in Workers : workerPc[w] = "done"

\* The first worker to end failed in authenticate, another failed in
\* create_project, and the three that ended after them all report success.
C13_Witness ==
  /\ test = "conc"
  /\ AfterJoin
  /\ Len(Reports) = num_threads
  /\ work[Reports[1][1]].failedAt = "authenticate"
  /\ work[Reports[2][1]].failedAt = "create_project"
  /\ \A i \in 3..num_threads : Reports[i][2]

\* C14: when the cross-platform rate is rejected, every platform that failed
\* is named in what is reported: by the per-platform lines 515-518 or by the
\* error line 342 of test_cross_platform.
C14_BreakdownOnRejection ==
  exc = "Cross-platform success rate too low" =>
    \A p \in DOMAIN platform_results :
      ~platform_results[p] => (p \in breakdown \/ rawResults[p] = "raise")

\* C15: delete_project never raises and returns True exactly for the
\* statuses 200, 204 and 404: every call of the teardown loop ends with a
\* boolean, True for an absent project (404), False for any other status and
\* for a transport exception.
C15_DeleteReturns ==
  \A i \in 1..Len(deleted) :
    /\ deleted[i].outcome \in DeleteOutcomes
    /\ deleted[i].ok <=> deleted[i].outcome \in {"200", "204", "404"}
    /\ deleted[i].outcome \in {"500", "timeout"} => ~deleted[i].ok
    /\ teardownIdx = i + 1 => pc \in {"teardown_loop", "report", "finished"}

\* The project was already gone (404) and the delete reported success.
C15_Witness ==
  /\ test = "flow"
  /\ Len(deleted) = 1
  /\ deleted[1].outcome = "404"
  /\ deleted[1].ok

\* A transport exception inside delete_project: False, and the teardown goes
\* on.
C15_WitnessException ==
  /\ test = "flow"
  /\ Len(deleted) = 1
  /\ deleted[1].outcome = "timeout"
  /\ ~deleted[1].ok
  /\ reported # "running"

\* C16: when all max_retries attempts fail, the error raised is the
\* last attempt's and carries the attempt count.
C16_LastErrorAnnotated ==
  navPc = "raised" =>
    /\ navRaised.attempt = max_retries - 1
    /\ \E n \in 1..max_retries : navRaised.message = <<navRaised.step, n>>

\* C17: when the project list or the project card does not appear within
\* the timeout, verify_project_in_dashboard returns False.
C17_NonVisibilityIsFalse ==
  dash.outcome \in {"list_timeout", "card_timeout"} => dash.result = "false"

\* C18: the visibility of the created project is observed through a wait
\* with a deadline, and the test executes no fixed-duration pause.
C18_NoFixedPause ==
  /\ dash.outcome # "none" => dash.timeout > 0
  /\ pauses = 0


\* C19: create_project is called at most once by the workflow and at most
\* once by every concurrent worker, also when the call failed, and always
\* under the worker's own name: no name is sent twice in a run.
C19_CreateAtMostOnce ==
  /\ createCalls <= 1
  /\ stageError = "Project creation failed" => createCalls = 1
  /\ \A w \in Workers :
       /\ work[w].creates <= 1
       /\ work[w].failedAt = "create_project" => work[w].creates = 1
       /\ work[w].creates = 1 => work[w].name = ProjectName(w)
  /\ \A w1, w2 \in Workers :
       (w1 # w2 /\ work[w1].creates > 0 /\ work[w2].creates > 0)
         => work[w1].name # work[w2].name

\* The workflow's create_project call failed and the test ended after that
\* single call.
C19_Witness ==
  /\ test = "flow"
  /\ stageError = "Project creation failed"
  /\ createCalls = 1
  /\ reported # "running"

\* A worker's create_project call failed and the worker ended after it.
C19_WitnessWorker ==
  /\ test = "conc"
  /\ \E w \in Workers :
       /\ work[w].failedAt = "create_project"
       /\ workerPc[w] = "done"
  /\ mainPc = "finished"

\* C20: every worker authenticates a client of its own: no two workers use
\* the same APIClient, a client's session holds only the token of the worker
\* that built it, every create_project request goes out with the token of
\* the worker sending it, and the names of distinct workers differ.
C20_NoSharedSession ==
  /\ \A w1, w2 \in Workers :
       (w1 # w2 /\ work[w1].client # None /\ work[w2].client # None)
         => /\ work[w1].client # work[w2].client
            /\ ProjectName(w1) # ProjectName(w2)
  /\ \A w \in Workers :
       /\ work[w].client # None => session[work[w].client] \in {None, w}
       /\ work[w].creates > 0 => work[w].token = w

\* All five workers authenticated and sent their create_project request,
\* the later-started ones first.
C20_Witness ==
  /\ test = "conc"
  /\ \A w \in Workers : work[w].creates = 1 /\ session[ClientOf(w)] = w
  /\ Reports[1][1] = 4
  /\ Reports[2][1] = 3

MobileFailed ==
  \E d \in DOMAIN mobileResults : mobileResults[d] \in {"false", "raise"}

\* C21: the mobile stage succeeds only when the iPhone call and the Android
\* call both returned True; when either returned False or raised, neither
\* the isolation stage nor the cross-platform stage is ever begun.
C21_BothMobileProfiles ==
  /\ StageMobile \in succeeded =>
       /\ DOMAIN mobileResults = {"iphone", "android"}
       /\ \A d \in DOMAIN mobileResults : mobileResults[d] = "true"
  /\ MobileFailed =>
       /\ StageMobile \notin succeeded
       /\ StageIsolation \notin started
       /\ StagePlatform \notin started
       /\ iso = NoIso
       /\ platform_results = <<>>

\* The iPhone call returned True, the Android call returned False, and the
\* test ended with the Android assertion.
C21_Witness ==
  /\ test = "flow"
  /\ DOMAIN mobileResults = {"iphone", "android"}
  /\ mobileResults["iphone"] = "true"
  /\ mobileResults["android"] = "false"
  /\ reported = "Project not accessible on Android"

\* The iPhone call raised and the Android call was never made.
C21_WitnessIphoneRaised ==
  /\ test = "flow"
  /\ DOMAIN mobileResults = {"iphone"}
  /\ mobileResults["iphone"] = "raise"
  /\ reported # "running"

\* C22: verify_tenant_isolation never raises; when the read as the
\* authorized tenant fails, whatever the failure, it returns False and the
\* read as the unauthorized tenant is not made; that read is made at most
\* once, and only after the authorized read succeeded.
C22_VerifierNeverRaises ==
  /\ iso.authorized \in GetOutcomes \ {"200"} =>
       /\ iso.result = "false"
       /\ iso.unauthorized = "none"
       /\ iso.reads = <<COMPANY1_ID>>
  /\ iso.unauthorized # "none" =>
       /\ iso.authorized = "200"
       /\ iso.reads = <<COMPANY1_ID, COMPANY2_ID>>
  /\ Len(iso.reads) <= 2
  /\ pc = "iso_assert" => (iso.result \in {"true", "false"} /\ exc = "none")

\* The authorized read timed out: False came back to the assert of line 497
\* after one read.
C22_Witness ==
  /\ test = "flow"
  /\ pc = "iso_assert"
  /\ iso.authorized = "timeout"
  /\ iso.result = "false"
  /\ Len(iso.reads) = 1

\* C23: navigate_to_login sleeps exactly once between two consecutive
\* attempts, and neither after an attempt that succeeded nor after the last
\* failed one: when it has returned or raised after a attempts it has slept
\* a - 1 times.
C23_DelaysBetweenAttempts ==
  /\ navSleeps = IF navPc = "goto" THEN gotoCalls ELSE gotoCalls - 1
  /\ navPc = "returned" => navSleeps = Len(navErrors)
  /\ navPc = "raised" => navSleeps = max_retries - 1

\* The second attempt succeeded: two attempts, one delay.
C23_Witness ==
  /\ test = "nav"
  /\ navPc = "returned"
  /\ gotoCalls = 2
  /\ navSleeps = 1

\* All attempts failed: three attempts, two delays.
C23_WitnessRaised ==
  /\ test = "nav"
  /\ navPc = "raised"
  /\ gotoCalls = 3
  /\ navSleeps = 2

\* The run has ended: the workflow test is reported after its fixture
\* teardown; navigate_to_login has returned or raised; in the concurrent
\* test every worker has ended, the queue is empty and the test is reported;
\* verify_tenant_data has returned or raised.
Terminated ==
  \/ /\ test = "flow"
     /\ pc = "finished"
     /\ reported # "running"
     /\ teardownAuth \in {"ok", "failed"}
  \/ /\ test = "nav"
     /\ navPc \in {"returned", "raised"}
     /\ gotoCalls <= max_retries
  \/ /\ test = "conc"
     /\ mainPc = "finished"
     /\ concReported # "running"
     /\ \A w \in Workers : workerPc[w] = "done"
     /\ results_queue = <<>>
  \/ /\ test = "tenant"
     /\ tdPc = "done"
     /\ tdResult # "none"

\* C24: every run terminates: the workflow test ends in pass or fail and its
\* cleanup has run, navigate_to_login returns or raises after at most
\* max_retries attempts, and in the concurrent test all workers end, the
\* joins return and the collection loop ends.
C24_EveryRunTerminates == <>[]Terminated

\* The concurrent test ended although two workers failed, one of them in
\* authenticate.
C24_Witness ==
  /\ Terminated
  /\ test = "conc"
  /\ concRate = <<3, 5>>
  /\ \E w \in Workers : work[w].failedAt = "authenticate"

\* The workflow test ended with a failure of its own and a teardown that
\* could not authenticate.
C24_WitnessFlow ==
  /\ Terminated
  /\ test = "flow"
  /\ reported = "Project not accessible on iPhone"
  /\ teardownAuth = "failed"

\* The cards that do not carry the expected name.
Mismatches == {i \in 1..Len(project_cards) :
                 ~InText(expected_tenant, project_cards[i])}

C25_WitnessEmpty ==
  /\ test = "tenant"
  /\ tdPc = "done"
  /\ project_cards = <<>>
  /\ tdResult = "passed"
  /\ cardsChecked = 0

\* C26: verify_tenant_isolation returns True only when the read as the
\* unauthorized tenant was answered 403 or 404; a transport failure, a
\* timeout or a server error on that read never gives True.
C26_TrueOnlyOnDenial ==
  /\ iso.result = "true" => iso.unauthorized \in {"403", "404"}
  /\ iso.unauthorized \in {"500", "timeout"} => iso.result # "true"

\* The procedure and device type a platform should be verified with: the
\* two mobile devices of the list through the mobile procedure with their
\* own device type, the rest through the desktop procedure.
ExpectedRoute(platform) ==
  CASE platform = "chrome_android" -> <<"mobile", "android">>
    [] platform = "safari_ios" -> <<"mobile", "iphone">>
    [] OTHER -> <<"desktop", "none">>

\* C27: while test_cross_platform verifies a platform, the procedure running
\* is the mobile one with the matching device type for chrome_android and
\* safari_ios, and the desktop one for chrome_windows and safari_mac.
C27_PlatformRouting ==
  (pc = "xp_record" /\ call.proc # "none") =>
    <<call.proc, call.device>> = ExpectedRoute(platforms[platformIdx])

\* C28: no entry of the cleanup registry has a missing id, and no delete is
\* attempted with a missing id, neither by the fixture of the workflow test
\* nor by the cleanup of the concurrent test.
C28_NoMissingIds ==
  /\ \A i \in 1..Len(cleanup_projects) : cleanup_projects[i][1] # None
  /\ \A i \in 1..Len(deleted) : deleted[i].id # None
  /\ \A i \in 1..Len(created_project_ids) : created_project_ids[i] # None
  /\ \A i \in 1..Len(concDeleted) : concDeleted[i] # None

\* C29: the page that create_mobile_browser returned is used (login, wait
\* for the card, interactions, close) only while the Playwright instance
\* that launched its browser is running.
C29_PageUsedWhileRunning ==
  call.proc = "mobile" => ~call.staleUse

\* C30: with the four platforms of the list, the cross-platform stage is
\* accepted exactly when all four passed; one failing platform gives a rate
\* of 3/4, which is rejected.
C30_AllFourRequired ==
  success_rate # <<0, 0>> =>
    /\ success_rate[2] = 4
    /\ (StagePlatform \in succeeded)
         <=> (\A p \in PlatformSet : platform_results[p])
    /\ success_rate[1] = 3 =>
         /\ StagePlatform \notin succeeded
         /\ stageError = "Cross-platform success rate too low"

\* Only chrome_android failed and pytest reports the rejected rate.
C30_Witness ==
  /\ test = "flow"
  /\ success_rate = <<3, 4>>
  /\ ~platform_results["chrome_android"]
  /\ reported = "Cross-platform success rate too low"

\* All four passed and the stage was accepted.
C30_WitnessAccepted ==
  /\ test = "flow"
  /\ success_rate = <<4, 4>>
  /\ StagePlatform \in succeeded

\* The browser is not open, and browser.close() was called on it once if
\* the try block was entered with it (and never otherwise).
ClosedOnce(b) ==
  /\ b.state \in {"none", "closed"}
  /\ b.closeCalls = IF b.tried THEN 1 ELSE 0

\* Where the test is while the browser of STEP 2 is in use.
UiPath == {"ui_login", "ui_sleep", "ui_verify", "ui_details", "ui_close"}

\* C31: the browser of the UI stage, of test_mobile_accessibility and of
\* _test_desktop_platform is closed once the block that launched it is left,
\* however the verification ended (True, False or an exception), with one
\* call of browser.close() and never a second one; no browser is open when
\* the run ends.
C31_BrowsersClosedOnce ==
  /\ uiBrowser.closeCalls <= 1
  /\ call.browser.closeCalls <= 1
  /\ pc \notin UiPath => ClosedOnce(uiBrowser)
  /\ call.step = "ret" => ClosedOnce(call.browser)
  /\ call.step \in {"login", "verify", "interact", "close"}
       => (call.browser.tried /\ call.browser.closeCalls = 0)
  /\ FlowFinished =>
       (uiBrowser.state # "open" /\ call.browser.state # "open")

\* The desktop procedure ends with an exception of the verification: its
\* browser was closed by the one close() call.
C31_Witness ==
  /\ test = "flow"
  /\ call.proc = "desktop"
  /\ call.step = "ret"
  /\ call.error = "Dashboard error"
  /\ call.browser.closedBy = "close"
  /\ call.browser.closeCalls = 1

\* The mobile procedure returns False: close() was called once, on a browser
\* that the exit of create_mobile_browser's with block had ended already.
C31_WitnessMobile ==
  /\ test = "flow"
  /\ call.proc = "mobile"
  /\ call.step = "ret"
  /\ call.result = "false"
  /\ call.browser.closedBy = "stop"
  /\ call.browser.closeCalls = 1

\* The UI stage ended with the assertion on the dashboard and the run is
\* over with its browser closed.
C31_WitnessUi ==
  /\ FlowFinished
  /\ reported = "Project not found in web dashboard"
  /\ uiBrowser.closedBy = "close"
  /\ uiBrowser.closeCalls = 1

====
